---- MODULE Spec2Model ----
(***************************************************************************)
(* ontopy: an incremental SPARQL SELECT builder (sparql.SelectQuery), the  *)
(* manager that binds it to an RDF class (ontopy.RDFClassManager) and the  *)
(* resource handle with its lazily loaded properties (ontopy.RDFClass).    *)
(*                                                                         *)
(* Python objects live in heaps: a reference is an index into a sequence,  *)
(* so that two objects with equal contents are still two objects.  The     *)
(* heaps only grow; a reference is never reused.                           *)
(***************************************************************************)
EXTENDS Integers, Sequences, FiniteSets, TLC

VARIABLES
    queries,    \* heap of SelectQuery objects: queries[r] is the _q dict of object r
    managers,   \* heap of RDFClassManager objects: [cls, query]
    outcome,    \* what the last call did: its arguments, return value, exception
    handles,    \* heap of RDFClass objects (resource handles)
    graphs,     \* heap of rdflib Graph objects: the triples each one holds
    fetches,    \* fetches[h]: how often handle h's document was dereferenced
    callers     \* the position of each caller inside RDFClass.__getitem__

vars == <<queries, managers, outcome, handles, graphs, fetches, callers>>

(***************************************************************************)
(* Bounds of the model.                                                    *)
(***************************************************************************)
MaxQueries == 4
MaxManagers == 2
MaxHandles == 2
MaxCalls == 2

(***************************************************************************)
(* Python values.  None and an integer cannot share a TLA+ type, so an     *)
(* optional integer is a sequence of length 0 or 1.                        *)
(***************************************************************************)
None == <<>>
Some(n) == <<n>>

NoError == ""

\* The names bound at module level in sparql.py.  Raising a name that is
\* not among them raises NameError instead of the exception meant.
SparqlNames ==
    {"SPARQLQueryException", "APredicate", "a", "format_literal", "format_tuple",
     "SPARQLEndpoint", "return_clone", "SelectQuery", "URIRef", "Literal",
     "Namespace", "deepcopy", "update_wrapper", "urlencode", "HTTPError"}

Raise(name) == IF name \in SparqlNames THEN name ELSE "NameError"

(***************************************************************************)
(* Terms of a triple pattern.  A Python string is the sequence of its      *)
(* characters, since format_literal inspects the first one; a URI, whose   *)
(* characters the code never inspects, is kept as one chunk.               *)
(***************************************************************************)
APredicate == [kind |-> "APredicate", text |-> <<"a">>]
URIRef(u) == [kind |-> "URIRef", text |-> <<u>>]
ResourceTerm(uri) == [kind |-> "RDFClass", text |-> <<uri>>]
basestring(chars) == [kind |-> "basestring", text |-> chars]

RECURSIVE Str(_)
Str(chunks) == IF chunks = <<>> THEN "" ELSE Head(chunks) \o Str(Tail(chunks))

RECURSIVE Join(_, _)
Join(sep, parts) ==
    IF parts = <<>> THEN ""
    ELSE IF Len(parts) = 1 THEN parts[1]
    ELSE parts[1] \o sep \o Join(sep, Tail(parts))

format_literal(o) ==
    IF o.kind = "APredicate" THEN "a"
    ELSE IF o.kind = "URIRef" THEN "<" \o Str(o.text) \o ">"
    ELSE IF o.kind = "RDFClass" THEN "<" \o Str(o.text) \o ">"
    ELSE IF o.kind = "basestring" /\ o.text[1] # "?" THEN "\"" \o Str(o.text) \o "\""
    ELSE Str(o.text)

format_tuple(tp) ==
    format_literal(tp[1]) \o " " \o format_literal(tp[2]) \o " " \o format_literal(tp[3])

(***************************************************************************)
(* SelectQuery                                                             *)
(***************************************************************************)
_empty_query ==
    [select |-> <<>>, distinct |-> FALSE, where |-> <<>>, optional |-> <<>>,
     filter |-> <<>>, order_by |-> <<>>, limit |-> None, offset |-> None]

\* A clone that is the object itself: the builder mutated in place.
CloneAliased(heap, self) == [heap |-> heap, ref |-> self]

\* deepcopy(self): a new object whose _q is a copy of self's, lists included.
_clone(heap, self) == [heap |-> Append(heap, heap[self]), ref |-> Len(heap) + 1]

\* var_or_vars is one string or a list of strings.
select_method(cl, var_or_vars) ==
    [err |-> NoError,
     q   |-> IF var_or_vars.kind = "basestring"
             THEN [cl EXCEPT !.select = Append(@, var_or_vars.vars[1])]
             ELSE [cl EXCEPT !.select = @ \o var_or_vars.vars]]

distinct_method(cl) == [err |-> NoError, q |-> [cl EXCEPT !.distinct = TRUE]]

where_method(cl, subj, pred, obj) ==
    [err |-> NoError, q |-> [cl EXCEPT !.where = Append(@, <<subj, pred, obj>>)]]

optional_method(cl, subj, pred, obj) ==
    [err |-> NoError, q |-> [cl EXCEPT !.optional = Append(@, <<subj, pred, obj>>)]]

\* __getitem__ with the limit of a slice taken to be its stop.
GetitemLimitIsStop(cl, k) ==
    IF k.kind = "int"
    THEN [err |-> NoError, q |-> [cl EXCEPT !.offset = Some(k.n), !.limit = Some(1)]]
    ELSE IF k.kind = "slice"
    THEN IF k.step # None /\ k.step # Some(1)
         THEN [err |-> "ValueError", q |-> cl]
         ELSE LET offset == IF k.start = None \/ k.start = Some(0) THEN 0 ELSE k.start[1]
                  q1 == IF offset > 0 THEN [cl EXCEPT !.offset = Some(offset)] ELSE cl
                  q2 == IF k.stop # None THEN [q1 EXCEPT !.limit = k.stop] ELSE q1
              IN  [err |-> NoError, q |-> q2]
    ELSE [err |-> "TypeError", q |-> cl]

\* k is an int, a slice (start, stop, step: each None or an int) or
\* something else.
getitem_method(cl, k) ==
    IF k.kind = "int"
    THEN [err |-> NoError, q |-> [cl EXCEPT !.offset = Some(k.n), !.limit = Some(1)]]
    ELSE IF k.kind = "slice"
    THEN IF k.step # None /\ k.step # Some(1)
         THEN [err |-> "ValueError", q |-> cl]
         ELSE LET offset == IF k.start = None \/ k.start = Some(0) THEN 0 ELSE k.start[1]
                  q1 == IF offset > 0 THEN [cl EXCEPT !.offset = Some(offset)] ELSE cl
                  q2 == IF k.stop # None
                        THEN [q1 EXCEPT !.limit = Some(k.stop[1] - offset)]
                        ELSE q1
              IN  [err |-> NoError, q |-> q2]
    ELSE [err |-> "TypeError", q |-> cl]

\* The method a decorated name stands for, run on the clone cl.
method(name, cl, args) ==
    CASE name = "select" -> select_method(cl, args[1])
      [] name = "distinct" -> distinct_method(cl)
      [] name = "where" -> where_method(cl, args[1], args[2], args[3])
      [] name = "optional" -> optional_method(cl, args[1], args[2], args[3])
      [] name = "__getitem__" -> getitem_method(cl, args[1])

\* The decorator: clone, run the method on the clone, return the clone.  A
\* clone whose method raised is returned to nobody.
return_clone(heap, self, name, args) ==
    LET cl == _clone(heap, self)
        r  == method(name, cl.heap[cl.ref], args)
    IN  IF r.err # NoError
        THEN [heap |-> heap, ret |-> 0, err |-> r.err]
        ELSE [heap |-> [cl.heap EXCEPT ![cl.ref] = r.q], ret |-> cl.ref, err |-> NoError]

select(heap, self, var_or_vars) == return_clone(heap, self, "select", <<var_or_vars>>)
distinct(heap, self) == return_clone(heap, self, "distinct", <<>>)
where(heap, self, subj, pred, obj) == return_clone(heap, self, "where", <<subj, pred, obj>>)
optional(heap, self, subj, pred, obj) ==
    return_clone(heap, self, "optional", <<subj, pred, obj>>)
SelectQuery__getitem__(heap, self, k) == return_clone(heap, self, "__getitem__", <<k>>)

RECURSIVE MapFormat(_)
MapFormat(tps) ==
    IF tps = <<>> THEN <<>> ELSE <<format_tuple(Head(tps))>> \o MapFormat(Tail(tps))

\* str(query): the SPARQL text, or the exception raised.
SelectQuery__str__(q) ==
    LET head == <<"select">>
                \o (IF q.distinct THEN <<"distinct">> ELSE <<>>)
                \o (IF q.select # <<>> THEN q.select ELSE <<"*">>)
        body == <<"where", "{", Join(" . ", MapFormat(q.where))>>
                \o (IF q.optional # <<>>
                    THEN <<"optional", "{", Join(" . ", MapFormat(q.optional)), "}">>
                    ELSE <<>>)
                \o <<"}">>
        order == IF q.order_by # <<>>
                 THEN <<"order by", Join(", ", q.order_by)>>
                 ELSE <<>>
        off == IF q.offset # None THEN <<"offset", ToString(q.offset[1])>> ELSE <<>>
        lim == IF q.limit # None THEN <<"limit", ToString(q.limit[1])>> ELSE <<>>
    IN  IF q.where # <<>>
        THEN [err |-> NoError, text |-> Join(" ", head \o body \o order \o off \o lim)]
        ELSE [err |-> Raise("MalformattedQueryException"), text |-> ""]

(***************************************************************************)
(* RDFClassManager                                                         *)
(***************************************************************************)
\* RDFClassMetaclass: class_uri = URIRef(prefix + label).
prefix == "http://dbpedia.org/ontology/"
class_uri(cls) == URIRef(prefix \o cls)

ResourceVar == basestring(<<"?", "resource">>)

\* RDFClassManager(cls) without a query: SelectQuery(), its select(...) and
\* the where(...) of that, each a new object; the manager keeps the last.
\* A SelectQuery object is always true, so a query that is given is kept.
RDFClassManager__init__(heap, cls, query) ==
    IF query # None
    THEN [heap |-> heap, manager |-> [cls |-> cls, query |-> query[1]]]
    ELSE LET h0 == Append(heap, _empty_query)
             r1 == select(h0, Len(h0), [kind |-> "basestring", vars |-> <<"?resource">>])
             r2 == where(r1.heap, r1.ret, ResourceVar, APredicate, class_uri(cls))
         IN  [heap |-> r2.heap, manager |-> [cls |-> cls, query |-> r2.ret]]

\* cls(uri): a handle as the manager hands it out.
Resource(cls, uri) == [cls |-> cls, resource_uri |-> uri]

RECURSIVE MapResource(_, _)
MapResource(cls, uris) ==
    IF uris = <<>> THEN <<>>
    ELSE <<Resource(cls, Head(uris))>> \o MapResource(cls, Tail(uris))

\* rows[k] of a Python list for an int k: negative k counts from the end.
ListIndex(rows, k) ==
    IF 0 <= k /\ k < Len(rows) THEN [err |-> NoError, item |-> rows[k + 1]]
    ELSE IF k < 0 /\ -k <= Len(rows) THEN [err |-> NoError, item |-> rows[Len(rows) + k + 1]]
    ELSE [err |-> "IndexError", item |-> ""]

\* A slice bound of a Python list, clamped into 0..Len (positive step).
Clamp(bound, n, default) ==
    IF bound = None THEN default
    ELSE IF bound[1] < 0 THEN (IF bound[1] + n < 0 THEN 0 ELSE bound[1] + n)
    ELSE IF bound[1] > n THEN n
    ELSE bound[1]

RECURSIVE Flatten(_)
Flatten(ss) == IF ss = <<>> THEN <<>> ELSE Head(ss) \o Flatten(Tail(ss))

\* rows[start:stop:step] of a Python list, step None or positive.
ListSlice(rows, k) ==
    LET n == Len(rows)
        lo == Clamp(k.start, n, 0)
        hi == Clamp(k.stop, n, n)
        st == IF k.step = None THEN 1 ELSE k.step[1]
        picked == {i \in 1..n : i - 1 >= lo /\ i - 1 < hi /\ (i - 1 - lo) % st = 0}
    IN  Flatten([i \in 1..n |-> IF i \in picked THEN <<rows[i]>> ELSE <<>>])

\* run_query: str(self.query) is evaluated first; only then is the endpoint
\* called, and it answers with rows or with an exception (response).
run_query(heap, m, response) ==
    LET s == SelectQuery__str__(heap[m.query])
    IN  IF s.err # NoError THEN [err |-> s.err, sent |-> <<>>, rows |-> <<>>]
        ELSE [err |-> response.err, sent |-> <<s.text>>, rows |-> response.rows]

\* iter(manager), consumed to its end.
RDFClassManager__iter__(heap, m, response) ==
    LET r == run_query(heap, m, response)
    IN  [err |-> r.err, sent |-> r.sent,
         returned |-> IF r.err = NoError THEN MapResource(m.cls, r.rows) ELSE <<>>]

\* manager[k]: the whole query is run and the list of rows is indexed.
RDFClassManager__getitem__(heap, m, k, response) ==
    LET r == run_query(heap, m, response)
    IN  IF r.err # NoError THEN [err |-> r.err, sent |-> r.sent, returned |-> <<>>]
        ELSE IF k.kind = "int"
        THEN LET it == ListIndex(r.rows, k.n)
             IN  [err |-> it.err, sent |-> r.sent,
                  returned |-> IF it.err = NoError
                               THEN <<Resource(m.cls, it.item)>> ELSE <<>>]
        ELSE IF k.kind = "slice"
        THEN [err |-> NoError, sent |-> r.sent,
              returned |-> MapResource(m.cls, ListSlice(r.rows, k))]
        ELSE [err |-> "TypeError", sent |-> r.sent, returned |-> <<>>]

RDFClassManager_where(heap, m, predicate, object) ==
    where(heap, m.query, ResourceVar, predicate, object)

RDFClassManager_optional(heap, m, predicate, object) ==
    optional(heap, m.query, ResourceVar, predicate, object)

\* Reached for a name the manager itself does not define: the query's
\* attribute of that name, called without arguments.
RDFClassManager__getattr__(heap, m, name) ==
    IF name = "distinct" THEN distinct(heap, m.query)
    ELSE IF name = "_clone"
    THEN LET cl == _clone(heap, m.query) IN [heap |-> cl.heap, ret |-> cl.ref, err |-> NoError]
    ELSE IF name = "select"
    THEN [heap |-> heap, ret |-> 0, err |-> "TypeError"]
    ELSE [heap |-> heap, ret |-> 0, err |-> "AttributeError"]

(***************************************************************************)
(* RDFClass: the resource handle                                           *)
(***************************************************************************)
\* RDFClass(resource_uri).  lang is the class attribute (u"en" unless a
\* subclass sets another); graph and properties are attributes the object
\* does not have until get_properties sets them.
RDFClass__init__(cls, resource_uri, lang) ==
    [cls |-> cls, resource_uri |-> resource_uri, lang |-> lang,
     graph |-> None, properties |-> None]

\* RDFClass defines no __eq__: == on two handles is object identity.
RDFClass__eq__(h1, h2) == h1 = h2

\* A test for an attribute the object never has.
HasPropertiesNever(handle) == FALSE

\* hasattr(self, "properties")
HasProperties(handle) == handle.properties # None

\* The objects of a document's triples: literals, with or without a
\* language tag, and URI references (which have no language attribute).
Literal(value, language) == [kind |-> "Literal", value |-> value, language |-> language]
URIObject(value) == [kind |-> "URIRef", value |-> value, language |-> None]

\* getattr(obj, "language", None)
Language(obj) == IF obj.kind = "Literal" THEN obj.language ELSE None

\* A test that also lets objects without a language tag through.
AdmitsUntagged(obj, lang) == Language(obj) = lang \/ Language(obj) = None

\* The test that decides whether a triple's object is stored.
Admits(obj, lang) == Language(obj) = lang

\* obj.toPython() under bind(None, unicode): the plain value, the language
\* tag dropped.
toPython(obj) == obj.value

DictSet(d, k, v) == [p \in DOMAIN d \cup {k} |-> IF p = k THEN v ELSE d[p]]

\* One pass of the loop body of get_properties on the dict d.
StoreTriple(d, triple, lang) ==
    IF Admits(triple.obj, lang) THEN DictSet(d, triple.pred, toPython(triple.obj)) ELSE d

Kraftwerk == "http://dbpedia.org/resource/Kraftwerk"
Neu == "http://dbpedia.org/resource/Neu%21"

\* What dereferencing a resource URI yields, in the order the graph is
\* iterated.
Document(uri) ==
    IF uri = Kraftwerk
    THEN << [pred |-> "rdfs:label", obj |-> Literal("Kraftwerk", Some("en"))],
            [pred |-> "dbo:abstract", obj |-> Literal("Band aus Duesseldorf", Some("de"))],
            [pred |-> "dbo:activeYearsStartYear", obj |-> Literal("1970", None)],
            [pred |-> "dbo:genre", obj |-> URIObject("http://dbpedia.org/resource/Krautrock")] >>
    ELSE << [pred |-> "rdfs:label", obj |-> Literal("Neu!", Some("de"))],
            [pred |-> "rdfs:label", obj |-> Literal("Neu! (band)", Some("en"))],
            [pred |-> "rdfs:label", obj |-> Literal("Neu!", Some("en"))] >>

(***************************************************************************)
(* Inputs                                                                  *)
(***************************************************************************)
IntKey(n) == [kind |-> "int", n |-> n]
SliceKey(start, stop, step) == [kind |-> "slice", start |-> start, stop |-> stop, step |-> step]

SelectInputs ==
    {[kind |-> "basestring", vars |-> <<"?resource">>],
     [kind |-> "list", vars |-> <<"?a", "?b">>]}

Predicates == {URIRef("http://dbpedia.org/ontology/pastMembers")}

Objects ==
    {ResourceTerm("http://dbpedia.org/resource/Michael_Rother"),
     basestring(<<"K", "raftwerk">>),
     basestring(<<"?", "x">>)}

IntKeys == {IntKey(-1), IntKey(0), IntKey(1)}

SliceKeys ==
    {SliceKey(Some(0), Some(5), None), SliceKey(Some(1), Some(6), None),
     SliceKey(Some(3), None, None), SliceKey(Some(0), Some(1), None),
     SliceKey(Some(1), Some(2), None), SliceKey(None, Some(5), None),
     SliceKey(Some(3), Some(1), None), SliceKey(Some(-1), Some(2), None),
     SliceKey(Some(0), Some(5), Some(1)), SliceKey(Some(0), Some(5), Some(2))}

OtherKeys == {[kind |-> "str"]}

Keys == IntKeys \cup SliceKeys \cup OtherKeys

\* What the endpoint answers to a query text: rows, or an exception.
Responses ==
    {[err |-> NoError, rows |-> <<>>],
     [err |-> NoError, rows |-> <<"http://x/1">>],
     [err |-> NoError, rows |-> <<"http://x/1", "http://x/2">>],
     [err |-> "SPARQLQueryException", rows |-> <<>>],
     [err |-> "HTTPError", rows |-> <<>>]}

ManagerKeys ==
    {IntKey(-1), IntKey(0), IntKey(1), SliceKey(None, Some(1), None), SliceKey(Some(1), None, None),
     SliceKey(Some(0), Some(5), Some(2)), [kind |-> "str"]}

AttrNames == {"distinct", "_clone", "select", "order_by"}

Classes == {"Band"}

ResourceURIs == {Kraftwerk, Neu}
Langs == {Some("en"), Some("de"), None}
PropertyKeys == {"rdfs:label", "dbo:activeYearsStartYear", "dbo:homepage"}
Callers == {1, 2}

(***************************************************************************)
(* The state after the class Band is declared: its resources manager and   *)
(* the three SelectQuery objects its construction allocated.               *)
(***************************************************************************)
Idle == [pc |-> "idle", h |-> 0, key |-> "", g |-> 0, i |-> 0, before |-> <<>>,
         err |-> NoError, value |-> "", calls |-> 0]

\* The record of a call: sent holds the query texts handed to the endpoint,
\* response what the endpoint answered, returned the handles given back.
NoResponse == [err |-> NoError, rows |-> <<>>]

Outcome(op, self, args, ret, err, sent, returned) ==
    [op |-> op, self |-> self, args |-> args, ret |-> ret, err |-> err,
     sent |-> sent, response |-> NoResponse, returned |-> returned]

Init ==
    LET r == RDFClassManager__init__(<<>>, "Band", None)
    IN  /\ queries = r.heap
        /\ managers = <<r.manager>>
        /\ outcome = Outcome("RDFClassManager", 0, <<>>, 1, NoError, <<>>, <<>>)
        /\ handles = <<>>
        /\ graphs = <<>>
        /\ fetches = <<>>
        /\ callers = [c \in Callers |-> Idle]

QueryRefs == 1..Len(queries)
ManagerRefs == 1..Len(managers)
HandleRefs == 1..Len(handles)

handleVars == <<handles, graphs, fetches, callers>>

(***************************************************************************)
(* Calls on a SelectQuery                                                  *)
(***************************************************************************)
QueryCall(op, self, args, r) ==
    /\ Len(queries) < MaxQueries
    /\ queries' = r.heap
    /\ outcome' = Outcome(op, self, args, r.ret, r.err, <<>>, <<>>)
    /\ UNCHANGED <<managers, handleVars>>

Select(self, v) == QueryCall("SelectQuery.select", self, <<v>>, select(queries, self, v))

Distinct(self) == QueryCall("SelectQuery.distinct", self, <<>>, distinct(queries, self))

Where(self, subj, pred, obj) ==
    QueryCall("SelectQuery.where", self, <<subj, pred, obj>>,
              where(queries, self, subj, pred, obj))

Optional(self, subj, pred, obj) ==
    QueryCall("SelectQuery.optional", self, <<subj, pred, obj>>,
              optional(queries, self, subj, pred, obj))

GetItem(self, k) ==
    QueryCall("SelectQuery.__getitem__", self, <<k>>, SelectQuery__getitem__(queries, self, k))

(***************************************************************************)
(* Calls on an RDFClassManager                                             *)
(***************************************************************************)
\* RDFClassManager(cls, query) around a query the caller holds.
NewManager(cls, q) ==
    /\ Len(managers) < MaxManagers
    /\ LET r == RDFClassManager__init__(queries, cls, Some(q))
       IN  /\ queries' = r.heap
           /\ managers' = Append(managers, r.manager)
           /\ outcome' = Outcome("RDFClassManager", 0, <<q>>, Len(managers) + 1, NoError,
                                 <<>>, <<>>)
    /\ UNCHANGED handleVars

\* A chained call: the new query wrapped in a new manager of the same class.
ManagerCall(op, m, args, r) ==
    /\ Len(queries) < MaxQueries
    /\ Len(managers) < MaxManagers
    /\ queries' = r.heap
    /\ IF r.err = NoError
       THEN /\ managers' = Append(managers,
                                  RDFClassManager__init__(r.heap, managers[m].cls,
                                                          Some(r.ret)).manager)
            /\ outcome' = Outcome(op, m, args, Len(managers) + 1, NoError, <<>>, <<>>)
       ELSE /\ managers' = managers
            /\ outcome' = Outcome(op, m, args, 0, r.err, <<>>, <<>>)
    /\ UNCHANGED handleVars

ManagerWhere(m, pred, obj) ==
    ManagerCall("RDFClassManager.where", m, <<pred, obj>>,
                RDFClassManager_where(queries, managers[m], pred, obj))

ManagerOptional(m, pred, obj) ==
    ManagerCall("RDFClassManager.optional", m, <<pred, obj>>,
                RDFClassManager_optional(queries, managers[m], pred, obj))

ManagerGetattr(m, name) ==
    ManagerCall("RDFClassManager.__getattr__", m, <<name>>,
                RDFClassManager__getattr__(queries, managers[m], name))

\* A call that runs the query: no object is created or changed.
Terminal(op, m, args, response, r) ==
    /\ outcome' = [Outcome(op, m, args, 0, r.err, r.sent, r.returned)
                    EXCEPT !.response = IF r.sent = <<>> THEN NoResponse ELSE response]
    /\ UNCHANGED <<queries, managers, handleVars>>

ManagerIter(m, response) ==
    Terminal("RDFClassManager.__iter__", m, <<>>, response,
             RDFClassManager__iter__(queries, managers[m], response))

ManagerGetItem(m, k, response) ==
    Terminal("RDFClassManager.__getitem__", m, <<k>>, response,
             RDFClassManager__getitem__(queries, managers[m], k, response))

(***************************************************************************)
(* Calls on an RDFClass handle.  A caller runs handle[key] statement by    *)
(* statement, so that two callers sharing a handle interleave as threads   *)
(* do; with one caller the steps simply follow each other.                 *)
(***************************************************************************)
queryVars == <<queries, managers, outcome>>

NewHandle(cls, uri, lang) ==
    /\ Len(handles) < MaxHandles
    /\ handles' = Append(handles, RDFClass__init__(cls, uri, lang))
    /\ fetches' = Append(fetches, <<>>)
    /\ UNCHANGED <<queryVars, graphs, callers>>

\* handle[key] is entered.
Call(c, h, key) ==
    /\ callers[c].pc \in {"idle", "done"}
    /\ callers[c].calls < MaxCalls
    /\ callers' = [callers EXCEPT ![c] =
                     [pc |-> "hasattr", h |-> h, key |-> key, g |-> 0, i |-> 0,
                      before |-> fetches[h], err |-> NoError, value |-> "",
                      calls |-> @.calls + 1]]
    /\ UNCHANGED <<queryVars, handles, graphs, fetches>>

\* if not hasattr(self, "properties"):
Hasattr(c) ==
    /\ callers[c].pc = "hasattr"
    /\ callers' = [callers EXCEPT ![c].pc =
                     IF HasProperties(handles[callers[c].h]) THEN "lookup" ELSE "Graph"]
    /\ UNCHANGED <<queryVars, handles, graphs, fetches>>

\* self.graph = Graph()
NewGraph(c) ==
    /\ callers[c].pc = "Graph"
    /\ graphs' = Append(graphs, <<>>)
    /\ handles' = [handles EXCEPT ![callers[c].h].graph = Some(Len(graphs) + 1)]
    /\ callers' = [callers EXCEPT ![c].pc = "parse"]
    /\ UNCHANGED <<queryVars, fetches>>

\* self.graph.parse(self.resource_uri): the document is dereferenced, and
\* either fills the graph or the call ends with the fetch's exception.
Parse(c, ok) ==
    /\ callers[c].pc = "parse"
    /\ LET h == callers[c].h
           g == handles[h].graph[1]
       IN  /\ fetches' = [fetches EXCEPT ![h] = Append(@, IF ok THEN "ok" ELSE "failed")]
           /\ IF ok
              THEN /\ graphs' = [graphs EXCEPT ![g] = Document(handles[h].resource_uri)]
                   /\ callers' = [callers EXCEPT ![c].pc = "properties"]
              ELSE /\ graphs' = graphs
                   /\ callers' = [callers EXCEPT ![c].pc = "done", ![c].err = "URLError"]
    /\ UNCHANGED <<queryVars, handles>>

\* self.properties = {}
SetProperties(c) ==
    /\ callers[c].pc = "properties"
    /\ handles' = [handles EXCEPT ![callers[c].h].properties = Some(<<>>)]
    /\ callers' = [callers EXCEPT ![c].pc = "for"]
    /\ UNCHANGED <<queryVars, graphs, fetches>>

\* for (subj, pred, obj) in self.graph: the iterator over the graph the
\* attribute names at this moment.
For(c) ==
    /\ callers[c].pc = "for"
    /\ callers' = [callers EXCEPT ![c].pc = "loop", ![c].i = 1,
                                  ![c].g = handles[callers[c].h].graph[1]]
    /\ UNCHANGED <<queryVars, handles, graphs, fetches>>

\* One pass of the loop, or its end.
Loop(c) ==
    /\ callers[c].pc = "loop"
    /\ LET h == callers[c].h
           triples == graphs[callers[c].g]
           i == callers[c].i
       IN  IF i > Len(triples)
           THEN /\ callers' = [callers EXCEPT ![c].pc = "lookup"]
                /\ handles' = handles
           ELSE /\ callers' = [callers EXCEPT ![c].i = i + 1]
                /\ handles' = [handles EXCEPT ![h].properties =
                                 Some(StoreTriple(@[1], triples[i], handles[h].lang))]
    /\ UNCHANGED <<queryVars, graphs, fetches>>

\* return self.properties[key]
Lookup(c) ==
    /\ callers[c].pc = "lookup"
    /\ LET d == handles[callers[c].h].properties[1]
           key == callers[c].key
       IN  callers' = [callers EXCEPT ![c].pc = "done",
                          ![c].err = IF key \in DOMAIN d THEN NoError ELSE "KeyError",
                          ![c].value = IF key \in DOMAIN d THEN d[key] ELSE ""]
    /\ UNCHANGED <<queryVars, handles, graphs, fetches>>

\* The statements of RDFClass.__getitem__ as caller c runs them.
RDFClass__getitem__(c) ==
    \/ Hasattr(c)
    \/ NewGraph(c)
    \/ \E ok \in BOOLEAN : Parse(c, ok)
    \/ SetProperties(c)
    \/ For(c)
    \/ Loop(c)
    \/ Lookup(c)

(***************************************************************************)
(* Specifications                                                          *)
(***************************************************************************)
\* The query builder and the manager's chained calls.
Next ==
    \/ \E self \in QueryRefs, v \in SelectInputs : Select(self, v)
    \/ \E self \in QueryRefs : Distinct(self)
    \/ \E self \in QueryRefs, pred \in Predicates, obj \in Objects :
          Where(self, ResourceVar, pred, obj)
    \/ \E self \in QueryRefs, pred \in Predicates, obj \in Objects :
          Optional(self, ResourceVar, pred, obj)
    \/ \E self \in QueryRefs, k \in Keys : GetItem(self, k)
    \/ \E cls \in Classes, q \in QueryRefs : NewManager(cls, q)
    \/ \E m \in ManagerRefs, pred \in Predicates, obj \in Objects : ManagerWhere(m, pred, obj)
    \/ \E m \in ManagerRefs, pred \in Predicates, obj \in Objects :
          ManagerOptional(m, pred, obj)
    \/ \E m \in ManagerRefs, name \in AttrNames : ManagerGetattr(m, name)

Spec == Init /\ [][Next]_vars

\* The manager: chained calls and the calls that run the query.
NextManager ==
    \/ \E cls \in Classes, q \in QueryRefs : NewManager(cls, q)
    \/ \E m \in ManagerRefs, pred \in Predicates, obj \in Objects : ManagerWhere(m, pred, obj)
    \/ \E m \in ManagerRefs, pred \in Predicates, obj \in Objects :
          ManagerOptional(m, pred, obj)
    \/ \E m \in ManagerRefs, name \in AttrNames : ManagerGetattr(m, name)
    \/ \E m \in ManagerRefs, response \in Responses : ManagerIter(m, response)
    \/ \E m \in ManagerRefs, k \in ManagerKeys, response \in Responses :
          ManagerGetItem(m, k, response)

SpecManager == Init /\ [][NextManager]_vars

\* Handles used by one caller.
NextHandle ==
    \/ \E cls \in Classes, uri \in ResourceURIs, lang \in Langs : NewHandle(cls, uri, lang)
    \/ \E h \in HandleRefs, key \in PropertyKeys : Call(1, h, key)
    \/ RDFClass__getitem__(1)

SpecHandle == Init /\ [][NextHandle]_vars

\* One handle shared by concurrent callers, each making its first access.
NextConcurrent ==
    \/ \E cls \in Classes, uri \in ResourceURIs, lang \in Langs :
          handles = <<>> /\ NewHandle(cls, uri, lang)
    \/ \E c \in Callers, key \in PropertyKeys :
          handles # <<>> /\ callers[c].calls = 0 /\ Call(c, 1, key)
    \/ \E c \in Callers : RDFClass__getitem__(c)

SpecConcurrent == Init /\ [][NextConcurrent]_vars

(***************************************************************************)
(* Properties                                                              *)
(***************************************************************************)
IsWhereCall(o) ==
    o.op \in {"SelectQuery.where", "RDFClassManager.where"} /\ o.err = NoError

\* The query a where call was made on, the query it returned and the
\* pattern it was given, read from the heaps before (ms, ms1: managers).
WhereSource(o, ms) == IF o.op = "SelectQuery.where" THEN o.self ELSE ms[o.self].query
WhereResult(o, ms1) == IF o.op = "SelectQuery.where" THEN o.ret ELSE ms1[o.ret].query
WherePattern(o) ==
    IF o.op = "SelectQuery.where" THEN o.args ELSE <<ResourceVar, o.args[1], o.args[2]>>

IsSliceCall(o) ==
    /\ o.op = "SelectQuery.__getitem__"
    /\ o.err = NoError
    /\ o.args[1].kind = "slice"

OffsetClause(offset) == IF offset = None THEN "" ELSE " offset " \o ToString(offset[1])
LimitClause(limit) == IF limit = None THEN "" ELSE " limit " \o ToString(limit[1])

C3_IndexIsUnitSlice ==
    (/\ outcome.op = "SelectQuery.__getitem__"
     /\ outcome.err = NoError
     /\ outcome.args[1].kind = "int"
     /\ outcome.args[1].n >= 0) =>
        LET n == outcome.args[1].n
            sliced == SelectQuery__getitem__(queries, outcome.self,
                                             SliceKey(Some(n), Some(n + 1), None))
        IN  SelectQuery__str__(queries[outcome.ret])
              = SelectQuery__str__(sliced.heap[sliced.ret])

NonNegative(opt) == opt = None \/ opt[1] >= 0

\* C5: in every query on the heap, limit and offset are each absent or a
\* non-negative integer.
C5_LimitOffsetNonNegative ==
    \A r \in QueryRefs : NonNegative(queries[r].limit) /\ NonNegative(queries[r].offset)

IsTerminal(o) == o.op \in {"RDFClassManager.__iter__", "RDFClassManager.__getitem__"}

\* C4: manager[index] hands the endpoint the text of the query sliced with
\* [index, index+1) and returns one handle for the row the endpoint returned;
\* with no row it fails with IndexError and returns nothing; a negative index
\* never returns a handle.
C4_AtRunsUnitSlice ==
    (/\ outcome.op = "RDFClassManager.__getitem__"
     /\ outcome.args[1].kind = "int"
     /\ outcome.sent # <<>>) =>
        LET n == outcome.args[1].n
            m == managers[outcome.self]
            sliced == SelectQuery__getitem__(queries, m.query,
                                             SliceKey(Some(n), Some(n + 1), None))
            rows == outcome.response.rows
        IN  /\ n >= 0 => outcome.sent = <<SelectQuery__str__(sliced.heap[sliced.ret]).text>>
            /\ n < 0 => outcome.returned = <<>>
            /\ (outcome.response.err = NoError /\ rows = <<>>) =>
                 outcome.err = "IndexError" /\ outcome.returned = <<>>
            /\ (outcome.response.err = NoError /\ rows # <<>> /\ n >= 0) =>
                 outcome.returned = <<Resource(m.cls, rows[1])>>

\* C9: a call that runs a query whose where sequence is empty fails with the
\* builder's exception, MalformattedQueryException, before the endpoint is
\* called: no text is sent and no handle is returned.
C9_EmptyWhereFailsEarly ==
    (/\ IsTerminal(outcome)
     /\ queries[managers[outcome.self].query].where = <<>>) =>
        /\ outcome.err = "MalformattedQueryException"
        /\ outcome.sent = <<>>
        /\ outcome.returned = <<>>

\* A call of handle[key] by caller c has returned or raised.
Done(c) == callers[c].pc = "done"

\* C6 as stated: the first get on a handle issues exactly one fetch and
\* every later get on it issues none.
C6_FetchedExactlyOnce ==
    Done(1) =>
        LET h == callers[1].h
        IN  /\ callers[1].before = <<>> => Len(fetches[h]) = 1
            /\ callers[1].before # <<>> => fetches[h] = callers[1].before

Succeeded(log) == \E n \in 1..Len(log) : log[n] = "ok"

\* C6 amended: a get on a handle whose document has not yet been fetched
\* successfully issues exactly one fetch; once a fetch has succeeded, every
\* later get, whether or not its lookup succeeds, issues none.
C6_FetchedOnceOnSuccess ==
    Done(1) =>
        LET h == callers[1].h
            before == callers[1].before
        IN  /\ ~Succeeded(before) =>
                 Len(fetches[h]) = Len(before) + 1
                 /\ SubSeq(fetches[h], 1, Len(before)) = before
            /\ Succeeded(before) => fetches[h] = before

\* C6 witness: a second get on a fetched handle has raised KeyError without
\* a further fetch.
C6_Witness ==
    /\ Done(1)
    /\ callers[1].calls = 2
    /\ callers[1].before = <<"ok">>
    /\ callers[1].err = "KeyError"
    /\ fetches[callers[1].h] = <<"ok">>

\* The handles whose properties are materialized and not being filled.
Materialized ==
    {h \in HandleRefs :
        /\ HasProperties(handles[h])
        /\ \A c \in Callers : callers[c].h = h => callers[c].pc \in {"idle", "lookup", "done"}}

Triples(uri) == {Document(uri)[n] : n \in 1..Len(Document(uri))}

C8_EqualIffSameURI ==
    \A h1, h2 \in HandleRefs :
        RDFClass__eq__(h1, h2) <=> handles[h1].resource_uri = handles[h2].resource_uri

\* The predicates of a document that the handle stores.
Stored(h) ==
    {t.pred : t \in {u \in Triples(handles[h].resource_uri) :
                       Admits(u.obj, handles[h].lang)}}

\* C10: with one handle shared by two callers making their first access,
\* the document is not fetched successfully more than once, and a get for a predicate the
\* document holds with an admissible object never raises KeyError.
C10_SharedHandleSafe ==
    /\ \A h \in HandleRefs :
          Cardinality({n \in 1..Len(fetches[h]) : fetches[h][n] = "ok"}) <= 1
    /\ \A c \in Callers :
          (Done(c) /\ callers[c].key \in Stored(callers[c].h)) => callers[c].err # "KeyError"

====
